---- MODULE Spec2Model ----
(***************************************************************************)
(* EasyByteParserCpp: a model of easy_byte_parser::ByteParser.             *)
(*                                                                         *)
(* The state is the ByteParser object (ByteParser.hpp:180-185), the byte   *)
(* order of the host, and a record of the last call made on the object.    *)
(* earlier is a history variable: it remembers one earlier parse call for  *)
(* the specification that compares repeated calls, and is left alone by    *)
(* every other.                                                            *)
(* loadConfig and parse are translated from src/src/ByteParser.cpp, the    *)
(* helpers from src/src/Utils.hpp.  The programmatic builder               *)
(* (setTotalLength, setStartCode, setCRC, addField, clear, validateConfig) *)
(* is declared in ByteParser.hpp but has no definition among the sources;  *)
(* it is modelled from its declarations and the specification.             *)
(*                                                                         *)
(* Machine words are sets of bit positions (bit i set <=> i in the set),   *)
(* so that 64-bit values stay exact.  A double is kept as the term         *)
(* (double)raw * scale + bias: the raw word, how it converts, and the two  *)
(* coefficients.  The INI file is given as its parsed keys and values.     *)
(***************************************************************************)
EXTENDS Integers, Sequences, FiniteSets, TLC

VARIABLES startCode_, startCodeLength_, totalLength_, crcAlgo_, crcLength_,
          fields_, systemBigEndian, call, earlier

vars == <<startCode_, startCodeLength_, totalLength_, crcAlgo_, crcLength_,
          fields_, systemBigEndian, call, earlier>>

parser == <<startCode_, startCodeLength_, totalLength_, crcAlgo_, crcLength_,
            fields_>>

(***************************************************************************)
(* Bounds of the model.                                                    *)
(***************************************************************************)
\* sections of one INI file in the validation runs
MaxFields == 2
\* TotalLength of the layouts in the validation runs
RecordLength == 4

(***************************************************************************)
(* Words as sets of bit positions.                                         *)
(***************************************************************************)
WordBits == 0 .. 63

RECURSIVE BitsFrom(_, _)
BitsFrom(v, i) ==
  IF v = 0 THEN {}
  ELSE (IF v % 2 = 1 THEN {i} ELSE {}) \cup BitsFrom(v \div 2, i + 1)

\* the word holding the natural number v
Bits(v) == BitsFrom(v, 0)

RECURSIVE Val(_)
\* the natural number a word holds (for words below 2^31)
Val(S) ==
  IF S = {} THEN 0
  ELSE LET i == CHOOSE j \in S : TRUE IN 2 ^ i + Val(S \ {i})

ShiftRight(S, n) == {i - n : i \in {j \in S : j >= n}}
ShiftLeft(S, n) == {i + n : i \in S} \cap WordBits
LowBits(n) == 0 .. (n - 1)
Xor(a, b) == Val((Bits(a) \ Bits(b)) \cup (Bits(b) \ Bits(a)))

\* size_t is 64 bits wide and unsigned.  A value at the top of its range,
\* 2^64 + n with n < 0, is held as the negative integer n, so that a sum of
\* small terms wraps as the machine sum does; a > b on size_t:
SizeAbove(a, b) == IF (a < 0) = (b < 0) THEN a > b ELSE a < 0

(***************************************************************************)
(* Type helpers.                                                           *)
(***************************************************************************)
ValidTypes ==
  {"uint8", "int8", "uint16", "int16", "uint32", "int32", "float", "bool"}

\* every type tag taken as supported
IsValidTypeAny(t) == TRUE

isValidType(t) == t \in ValidTypes

getTypeSize(t) ==
  IF t \in {"uint8", "int8", "bool"} THEN 1
  ELSE IF t \in {"uint16", "int16"} THEN 2
  ELSE IF t \in {"uint32", "int32", "float"} THEN 4
  ELSE 0

(***************************************************************************)
(* Utils.hpp: byteswap, readFromBuffer, calculateCRC16Modbus.              *)
(***************************************************************************)
\* the value of a T of n bytes whose object representation is bytes
\* (memcpy into the value, read on a host of the given byte order)
NativeWord(bytes, n, hostBig) ==
  UNION {{8 * (IF hostBig THEN n - 1 - k ELSE k) + b : b \in Bits(bytes[k + 1])}
         : k \in 0 .. (n - 1)}

\* the value handed back as it was read, whatever the byte order of the source
ByteswapNone(W, n) == W

byteswap(W, n) ==
  IF n = 1 THEN W
  ELSE {8 * (n - 1 - (i \div 8)) + (i % 8) : i \in W}

\* readFromBuffer<T>(data + off, isBigEndianSource), sizeof(T) = n
readFromBufferHost(data, off, n, isBigEndianSource, hostBig) ==
  LET value == NativeWord(SubSeq(data, off + 1, off + n), n, hostBig)
  IN  IF isBigEndianSource # hostBig THEN byteswap(value, n) ELSE value

CrcInit == 65535
CrcPoly == 40961

RECURSIVE CrcRounds(_, _)
CrcRounds(crc, j) ==
  IF j = 0 THEN crc
  ELSE CrcRounds(IF crc % 2 = 1 THEN Xor(crc \div 2, CrcPoly) ELSE crc \div 2,
                 j - 1)

RECURSIVE CrcLoop(_, _, _, _)
CrcLoop(data, i, length, crc) ==
  IF i >= length THEN crc
  ELSE CrcLoop(data, i + 1, length, CrcRounds(Xor(crc, data[i + 1]), 8))

calculateCRC16Modbus(data, length) == CrcLoop(data, 0, length, CrcInit)

(***************************************************************************)
(* ByteParser::loadConfig, ByteParser.cpp:51-267.                          *)
(*                                                                         *)
(* An INI file is the record of what mINI hands over: for the [Header],    *)
(* which keys are present and their values (StartCode as its bytes), and   *)
(* the field sections in file order, each a FieldDefinition with the       *)
(* defaults of ByteParser.hpp:44-53 for the keys it leaves out.            *)
(***************************************************************************)
NoError == "none"

\* uint8_t 0xFF: every bit of a usageMap byte
FullByte == 0 .. 7

\* ByteParser.cpp:209-217
fieldFullMask(f) ==
  IF f.bitCount = 0 THEN WordBits
  ELSE ShiftLeft(IF f.bitCount = 64 THEN WordBits ELSE LowBits(f.bitCount),
                 f.bitOffset)

\* the byte order of the field ignored: byte i holds bits 8i .. 8i+7
BitStartFlat(f, size, i) == i * 8

\* ByteParser.cpp:222-230
bitStart(f, size, i) ==
  IF f.isBigEndian THEN (size - 1 - i) * 8 ELSE i * 8

\* ByteParser.cpp:235
byteMask(f, size, i) ==
  ShiftRight(fieldFullMask(f), bitStart(f, size, i)) \cap FullByte

\* the CRC tail taken to begin one byte late
CollisionReasonTailOffByOne(absByteIndex, total, scl, crcl) ==
  IF scl > 0 /\ absByteIndex < scl
    THEN "collision: overlaps with StartCode header region"
  ELSE IF crcl > 0 /\ absByteIndex > total - crcl
    THEN "collision: overlaps with CRC tail region"
  ELSE "collision: overlaps with another field"

\* ByteParser.cpp:242-250
CollisionReason(absByteIndex, total, scl, crcl) ==
  IF scl > 0 /\ absByteIndex < scl
    THEN "collision: overlaps with StartCode header region"
  ELSE IF crcl > 0 /\ absByteIndex >= total - crcl
    THEN "collision: overlaps with CRC tail region"
  ELSE "collision: overlaps with another field"

RECURSIVE ClaimBytesMarkWhole(_, _, _, _, _, _, _)
\* the loop with the usage marked for whole-type fields only
ClaimBytesMarkWhole(f, size, i, usageMap, total, scl, crcl) ==
  IF i >= size THEN [err |-> NoError, usageMap |-> usageMap]
  ELSE
    LET absByteIndex == f.byteOffset + i
        m == byteMask(f, size, i)
    IN  IF m = {} THEN ClaimBytesMarkWhole(f, size, i + 1, usageMap, total, scl, crcl)
        ELSE IF usageMap[absByteIndex + 1] \cap m # {}
          THEN [err |-> CollisionReason(absByteIndex, total, scl, crcl),
                usageMap |-> usageMap]
        ELSE ClaimBytesMarkWhole(f, size, i + 1,
                        [usageMap EXCEPT ![absByteIndex + 1] =
                           IF f.bitCount = 0 THEN @ \cup m ELSE @],
                        total, scl, crcl)

RECURSIVE ClaimBytes(_, _, _, _, _, _, _)
\* ByteParser.cpp:219-257: the loop over the bytes of one field
ClaimBytes(f, size, i, usageMap, total, scl, crcl) ==
  IF i >= size THEN [err |-> NoError, usageMap |-> usageMap]
  ELSE
    LET absByteIndex == f.byteOffset + i
        m == byteMask(f, size, i)
    IN  IF m = {} THEN ClaimBytes(f, size, i + 1, usageMap, total, scl, crcl)
        ELSE IF usageMap[absByteIndex + 1] \cap m # {}
          THEN [err |-> CollisionReason(absByteIndex, total, scl, crcl),
                usageMap |-> usageMap]
        ELSE ClaimBytes(f, size, i + 1,
                        [usageMap EXCEPT ![absByteIndex + 1] = @ \cup m],
                        total, scl, crcl)

\* a field may end one byte short of the record at most
ExceedsTotalLengthOffByOne(f, size, total) == f.byteOffset + size >= total

\* ByteParser.cpp:196
exceedsTotalLength(f, size, total) == SizeAbove(f.byteOffset + size, total)

\* the bit count alone held against the width of the type
ExceedsTypeWidthCountOnly(f, typeBits) == f.bitCount > typeBits

\* ByteParser.cpp:203
exceedsTypeWidth(f, typeBits) ==
  f.bitCount > 0 /\ f.bitOffset + f.bitCount > typeBits

\* ByteParser.cpp:178-257: the checks on one field section
CheckField(f, usageMap, total, scl, crcl) ==
  LET size == getTypeSize(f.type)
      typeBits == size * 8
  IN  IF ~isValidType(f.type)
        THEN [err |-> "has invalid Type", usageMap |-> usageMap]
      ELSE IF exceedsTotalLength(f, size, total)
        THEN [err |-> "ByteOffset exceeds TotalLength", usageMap |-> usageMap]
      ELSE IF exceedsTypeWidth(f, typeBits)
        THEN [err |-> "Bit logic exceeds type width", usageMap |-> usageMap]
      ELSE ClaimBytes(f, size, 0, usageMap, total, scl, crcl)

RECURSIVE LoadFields(_, _, _, _, _, _, _)
\* ByteParser.cpp:161-266: the loop over the sections; a field is pushed
\* once it has passed its checks, and the first error ends the loop
LoadFields(sections, k, usageMap, fields, total, scl, crcl) ==
  IF k > Len(sections) THEN [err |-> NoError, fields |-> fields]
  ELSE
    LET r == CheckField(sections[k], usageMap, total, scl, crcl)
    IN  IF r.err # NoError THEN [err |-> r.err, fields |-> fields]
        ELSE LoadFields(sections, k + 1, r.usageMap,
                        Append(fields, sections[k]), total, scl, crcl)

\* ByteParser.cpp:137-158: the usage map with the two framing regions marked
FramingUsageMap(total, scl, crcl) ==
  [i \in 1 .. total |->
     IF (i - 1 < scl) \/ (crcl > 0 /\ i - 1 >= total - crcl)
       THEN FullByte ELSE {}]

\* the two reserved lengths each held against the record, not against each
\* other
FramingErrorLengthsOnly(total, scl, crcl) ==
  IF scl > 0 /\ scl > total THEN "StartCodeLength exceeds TotalLength"
  ELSE IF crcl > 0 /\ crcl > total THEN "CRCLength exceeds TotalLength"
  ELSE NoError

\* ByteParser.cpp:139-158: the checks on the two framing regions
FramingError(total, scl, crcl) ==
  IF scl > 0 /\ scl > total THEN "StartCodeLength exceeds TotalLength"
  ELSE IF crcl > 0 /\ crcl > total THEN "CRCLength exceeds TotalLength"
  ELSE IF crcl > 0 /\ scl > 0 /\ total - crcl < scl
    THEN "CRCLength overlaps with StartCodeLength"
  ELSE NoError

\* ByteParser.cpp:135-266: what loadConfig does once the header is read
LoadBody(total, scl, crcl, sections) ==
  IF FramingError(total, scl, crcl) # NoError
    THEN [err |-> FramingError(total, scl, crcl), fields |-> <<>>]
  ELSE LoadFields(sections, 1, FramingUsageMap(total, scl, crcl), <<>>,
                  total, scl, crcl)

\* the members of the object as one record
Members(sc, scl, total, algo, crcl, fields) ==
  [startCode |-> sc, startCodeLength |-> scl, totalLength |-> total,
   crcAlgo |-> algo, crcLength |-> crcl, fields |-> fields]

\* ByteParser.cpp:51-267: the members after loadConfig(ini) on an object
\* whose members were old, and what it threw
loadConfig(ini, old) ==
  LET hasSCpair == ini.hasSC /\ ini.hasSCL
      sc  == IF hasSCpair THEN ini.StartCode ELSE <<>>
      scl == IF hasSCpair THEN ini.StartCodeLength ELSE 0
      s1  == [old EXCEPT !.startCode = sc, !.startCodeLength = scl]
      hasCRCpair == ini.hasCRC /\ ini.hasCRCL
      algo == IF hasCRCpair THEN ini.CRCAlgo ELSE ""
      crcl == IF hasCRCpair THEN ini.CRCLength ELSE 0
      body == LoadBody(ini.TotalLength, scl, crcl, ini.sections)
  IN  IF Len(sc) > scl
        THEN [m |-> s1,
              throws |-> "StartCode binary size exceeds StartCodeLength"]
      ELSE IF ~ini.hasTotal
        THEN [m |-> s1, throws |-> "Missing Header.TotalLength"]
      ELSE [m |-> Members(sc, scl, ini.TotalLength, algo, crcl, body.fields),
            throws |-> body.err]

(***************************************************************************)
(* ParsedValue (ByteParser.hpp:12-42).  kind is the alternative the        *)
(* variant holds.  An integer alternative holds the 64-bit word bits.  A   *)
(* double holds the term (double)x * scale + bias, x being the word bits   *)
(* read as src (uint64, int64 or float).  A bool holds bit 0.              *)
(***************************************************************************)
MkValue(kind, src, bits, scale, bias) ==
  [kind |-> kind, src |-> src, bits |-> bits, scale |-> scale, bias |-> bias]

MkU64(W) == MkValue("uint64", "uint64", W, 1, 0)
MkI64(W) == MkValue("int64", "int64", W, 1, 0)
MkBool(b) == MkValue("bool", "bool", IF b THEN {0} ELSE {}, 1, 0)
MkDouble(src, W, scale, bias) == MkValue("double", src, W, scale, bias)

\* the conversion of an unsigned T: the word as it is
ZeroExtend(W, n) == W

\* ByteParser.cpp:379-388: the 64-bit word a signed T of n bytes converts to
\* on assignment to the int64_t iVal
SignExtend(W, n) == IF (8 * n - 1) \in W THEN W \cup ((8 * n) .. 63) ELSE W

SignedTypes == {"int8", "int16", "int32"}

(***************************************************************************)
(* ByteParser::parse, ByteParser.cpp:274-415.                              *)
(***************************************************************************)
\* ByteParser.cpp:296-332: the alternative the lambda process returns for a
\* field read as T
processKind(field, T) ==
  IF field.bitCount > 0 THEN (IF T = "bool" THEN "bool" ELSE "double")
  ELSE IF T = "float" THEN "double"
  ELSE IF T = "bool" THEN "bool"
  ELSE IF field.scale # 1 \/ field.bias # 0 THEN "double"
  ELSE "int64"

\* ByteParser.cpp:334-358: whether the first pass over the type throws
\* std::bad_variant_access (std::get<int64_t> on a variant holding a double)
firstPassThrows(field) ==
  IF field.type = "uint8"
    THEN processKind(field, "uint8") \notin {"double", "int64"}
  ELSE IF field.type = "int8"
    THEN processKind(field, "int8") # "int64"
  ELSE FALSE

\* ByteParser.cpp:375, 391-398: isSigned once the bit operation is done
isSignedAfterBits(field) ==
  IF field.bitCount > 0 THEN FALSE ELSE field.type \in SignedTypes

\* ByteParser.cpp:363-409: the value of one field
fieldValue(field, data, hostBig) ==
  LET raw == readFromBufferHost(data, field.byteOffset,
                                getTypeSize(field.type), field.isBigEndian,
                                hostBig)
  IN
  IF field.type = "float"
    THEN MkDouble("float", raw, field.scale, field.bias)
  ELSE IF field.type = "bool"
    THEN LET r == IF field.bitCount > 0
                    THEN ShiftRight(raw, field.bitOffset) \cap {0}
                    ELSE raw
         IN  MkBool(r # {})
  ELSE
    LET declSigned == field.type \in SignedTypes
        iVal == IF declSigned
                  THEN SignExtend(raw, getTypeSize(field.type)) ELSE {}
        uVal0 == IF declSigned THEN {} ELSE raw
        uVal == IF field.bitCount > 0
                  THEN ShiftRight(IF declSigned THEN iVal ELSE uVal0,
                                  field.bitOffset) \cap LowBits(field.bitCount)
                  ELSE uVal0
        isSigned == isSignedAfterBits(field)
    IN  IF field.scale # 1 \/ field.bias # 0
          THEN IF isSigned
                 THEN MkDouble("int64", iVal, field.scale, field.bias)
                 ELSE MkDouble("uint64", uVal, field.scale, field.bias)
        ELSE IF isSigned THEN MkI64(iVal) ELSE MkU64(uVal)

\* std::map operator[] assignment: result[name] = val
MapPut(result, name, val) ==
  {e \in result : e.name # name} \cup {[name |-> name, val |-> val]}

RECURSIVE parseLoop(_, _, _, _, _, _)
\* ByteParser.cpp:287-412: the loop over fields_
parseLoop(fields, k, data, size, hostBig, result) ==
  IF k > Len(fields) THEN [throws |-> NoError, result |-> result]
  ELSE
    LET field == fields[k]
    IN  IF SizeAbove(field.byteOffset + getTypeSize(field.type), size)
          THEN parseLoop(fields, k + 1, data, size, hostBig, result)
        ELSE IF firstPassThrows(field)
          THEN [throws |-> "bad_variant_access", result |-> {}]
        ELSE parseLoop(fields, k + 1, data, size, hostBig,
                       MapPut(result, field.name,
                              fieldValue(field, data, hostBig)))

\* the result map kept from one call to the next instead of starting empty
ParseKeepingEntries(m, data, hostBig) ==
  parseLoop(m.fields, 1, data, Len(data), hostBig,
            IF call.op = "parse" THEN call.result ELSE {})

\* ByteParser.cpp:269-415: parse(buffer) on an object whose members are m
parse(m, data, hostBig) ==
  parseLoop(m.fields, 1, data, Len(data), hostBig, {})

RECURSIVE parseReads(_, _, _)
\* ByteParser.cpp:287-343, Utils.hpp:75: the indices data[i] that the memcpy
\* of readFromBuffer copies from, over the fields from the k-th on; an index
\* below 0 is one at the top of the size_t range
parseReads(fields, k, size) ==
  IF k > Len(fields) THEN {}
  ELSE
    LET field == fields[k]
        n == getTypeSize(field.type)
    IN  IF SizeAbove(field.byteOffset + n, size)
          THEN parseReads(fields, k + 1, size)
        ELSE {field.byteOffset + i : i \in 0 .. (n - 1)}
               \cup (IF firstPassThrows(field) THEN {}
                     ELSE parseReads(fields, k + 1, size))

\* the widest type: no field that passes the guard of the loop starts more
\* than this many bytes before data[0]
MaxTypeSize == 4

\* bytes that may lie in the memory before the buffer
OutsideBytes == {0, 255}

RECURSIVE MemoryBefore(_)
\* the contents of the n bytes before data[0]
MemoryBefore(n) ==
  IF n = 0 THEN {<<>>}
  ELSE {Append(q, x) : q \in MemoryBefore(n - 1), x \in OutsideBytes}

\* the fields that pass the guard of the loop, addressed from MaxTypeSize
\* bytes before data[0]
FromBefore(m, size) ==
  LET kept == SelectSeq(m.fields,
                LAMBDA f : ~SizeAbove(f.byteOffset + getTypeSize(f.type), size))
  IN  [m EXCEPT !.fields =
         [k \in 1 .. Len(kept) |->
            [kept[k] EXCEPT !.byteOffset = @ + MaxTypeSize]]]

\* ByteParser.cpp:269-415: what parse(buffer) may give.  A read outside the
\* buffer is undefined: the process is killed, or the bytes that lie before
\* the buffer are read, whatever they hold.
parseOutcomes(m, data, hostBig) ==
  IF parseReads(m.fields, 1, Len(data)) \subseteq 0 .. (Len(data) - 1)
    THEN {parse(m, data, hostBig)}
  ELSE {[throws |-> "segmentation fault", result |-> {}]}
         \cup {parse(FromBefore(m, Len(data)), before \o data, hostBig) :
                 before \in MemoryBefore(MaxTypeSize)}

(***************************************************************************)
(* The object and the calls on it.                                         *)
(***************************************************************************)
Current ==
  Members(startCode_, startCodeLength_, totalLength_, crcAlgo_, crcLength_,
          fields_)

SetMembers(m) ==
  /\ startCode_' = m.startCode
  /\ startCodeLength_' = m.startCodeLength
  /\ totalLength_' = m.totalLength
  /\ crcAlgo_' = m.crcAlgo
  /\ crcLength_' = m.crcLength
  /\ fields_' = m.fields

\* reads: the buffer indices the call read from
Called(op, arg, throws, result) ==
  [op |-> op, arg |-> arg, throws |-> throws, result |-> result, reads |-> {}]

\* no parse call remembered
Unobserved ==
  [layout |-> <<>>, arg |-> <<>>, throws |-> "unobserved", result |-> {},
   between |-> {}]

\* ByteParser.hpp:93, 180-185: a default-constructed ByteParser, on a host
\* of either byte order
Init ==
  /\ startCode_ = <<>>
  /\ startCodeLength_ = 0
  /\ totalLength_ = 0
  /\ crcAlgo_ = ""
  /\ crcLength_ = 0
  /\ fields_ = <<>>
  /\ systemBigEndian \in BOOLEAN
  /\ call = Called("none", <<>>, NoError, {})
  /\ earlier = Unobserved

\* parser.loadConfig(path), the file at path holding ini
LoadConfig(ini) ==
  LET r == loadConfig(ini, Current)
  IN  /\ SetMembers(r.m)
      /\ call' = Called("loadConfig", ini, r.throws, {})
      /\ UNCHANGED <<systemBigEndian, earlier>>

\* parser.parse(buffer), buffer holding the bytes data
ParseCall(data) ==
  /\ \E r \in parseOutcomes(Current, data, systemBigEndian) :
       call' = [Called("parse", data, r.throws, r.result)
                  EXCEPT !.reads = parseReads(fields_, 1, Len(data))]
  /\ UNCHANGED <<parser, systemBigEndian>>

Parse(data) == ParseCall(data) /\ UNCHANGED earlier

(***************************************************************************)
(* Inputs.                                                                 *)
(***************************************************************************)
Field(name, byteOffset, bitOffset, bitCount, type, isBigEndian, scale, bias) ==
  [name |-> name, byteOffset |-> byteOffset, bitOffset |-> bitOffset,
   bitCount |-> bitCount, type |-> type, isBigEndian |-> isBigEndian,
   scale |-> scale, bias |-> bias]

Ini(hasSC, sc, scl, hasTotal, total, hasCRC, algo, crcl, sections) ==
  [hasSC |-> hasSC, hasSCL |-> hasSC, StartCode |-> sc,
   StartCodeLength |-> scl, hasTotal |-> hasTotal, TotalLength |-> total,
   hasCRC |-> hasCRC, hasCRCL |-> hasCRC, CRCAlgo |-> algo,
   CRCLength |-> crcl, sections |-> sections]

\* the sequences of at most n elements of S
RECURSIVE SeqsUpTo(_, _)
SeqsUpTo(S, n) ==
  IF n = 0 THEN {<<>>}
  ELSE LET shorter == SeqsUpTo(S, n - 1)
       IN  shorter \cup {Append(q, x) : q \in shorter, x \in S}

\* the section names of a file are distinct: the k-th section is named by k
SectionNames == <<"f1", "f2", "f3", "f4">>
Named(q) == [k \in 1 .. Len(q) |-> [q[k] EXCEPT !.name = SectionNames[k]]]

(***************************************************************************)
(* SpecValidate: one loadConfig on a fresh object, over layouts whose      *)
(* fields share bytes in every way the byte order and the bit range allow. *)
(***************************************************************************)
ValidateTotal == RecordLength

\* type, isBigEndian, bitOffset, bitCount
ValidateShapes ==
  {<<"uint8", TRUE, 0, 0>>, <<"uint8", TRUE, 0, 4>>, <<"uint8", TRUE, 4, 4>>,
   <<"uint8", TRUE, 5, 4>>, <<"uint16", TRUE, 0, 0>>, <<"uint32", TRUE, 0, 0>>}
  \cup {<<"uint16", e, r[1], r[2]>> :
          e \in BOOLEAN, r \in {<<0, 8>>, <<4, 8>>}}
  \cup {<<"uint32", e, 12, 8>> : e \in BOOLEAN}

ValidateOffsets == {0, 1}

ValidateFields ==
  {Field("f", o, s[3], s[4], s[1], s[2], 1, 0) :
     o \in ValidateOffsets, s \in ValidateShapes}

ValidateInis ==
  {Ini(sc, IF sc THEN <<2>> ELSE <<>>, IF sc THEN 1 ELSE 0,
       TRUE, ValidateTotal,
       crc, IF crc THEN "CRC16" ELSE "", IF crc THEN 2 ELSE 0,
       Named(q)) :
     sc \in BOOLEAN, crc \in BOOLEAN, q \in SeqsUpTo(ValidateFields, MaxFields)}

NextValidate ==
  /\ call.op = "none"
  /\ \E ini \in ValidateInis : LoadConfig(ini)

SpecValidate == Init /\ [][NextValidate]_vars

(***************************************************************************)
(* Regions of the record as sets of <<byte, bit>>, for the claims on       *)
(* validation.                                                             *)
(***************************************************************************)
ByteRegion(first, count) ==
  {<<i, b>> : i \in first .. (first + count - 1), b \in 0 .. 7}

\* the bits of its underlying type that a field uses
LogicalBits(f) ==
  IF f.bitCount = 0 THEN 0 .. (8 * getTypeSize(f.type) - 1)
  ELSE f.bitOffset .. (f.bitOffset + f.bitCount - 1)

\* where bit l of the underlying type lies in the record: big-endian has the
\* most significant byte at byteOffset, little-endian the least significant
PhysicalBit(f, l) ==
  LET n == getTypeSize(f.type)
  IN  <<f.byteOffset + (IF f.isBigEndian THEN n - 1 - (l \div 8) ELSE l \div 8),
        l % 8>>

FieldRegion(f) == {PhysicalBit(f, l) : l \in LogicalBits(f)}

IniStartCodeLength(ini) ==
  IF ini.hasSC /\ ini.hasSCL THEN ini.StartCodeLength ELSE 0
IniCrcLength(ini) == IF ini.hasCRC /\ ini.hasCRCL THEN ini.CRCLength ELSE 0

\* the regions of a layout: start code, CRC, then the fields
Regions(ini) ==
  <<ByteRegion(0, IniStartCodeLength(ini)),
    ByteRegion(ini.TotalLength - IniCrcLength(ini), IniCrcLength(ini))>>
  \o [k \in 1 .. Len(ini.sections) |-> FieldRegion(ini.sections[k])]

PairwiseDisjoint(regions) ==
  \A i, j \in 1 .. Len(regions) : i < j => regions[i] \cap regions[j] = {}

FieldInBounds(f, total) ==
  /\ isValidType(f.type)
  /\ f.byteOffset + getTypeSize(f.type) <= total
  /\ f.bitCount > 0 => f.bitOffset + f.bitCount <= 8 * getTypeSize(f.type)

\* the bounds and bit-width checks, each on one region alone
IndividualChecksPass(ini) ==
  /\ ini.hasTotal
  /\ ini.hasSC /\ ini.hasSCL => Len(ini.StartCode) <= ini.StartCodeLength
  /\ IniStartCodeLength(ini) <= ini.TotalLength
  /\ IniCrcLength(ini) <= ini.TotalLength
  /\ \A k \in 1 .. Len(ini.sections) :
       FieldInBounds(ini.sections[k], ini.TotalLength)

Loaded == call.op = "loadConfig"
Accepted == Loaded /\ call.throws = NoError

\* C5: validation accepts a layout whose individual bounds and bit-width
\* checks pass if and only if the start-code region, the CRC region and the
\* physical bit sets of the fields (endian-aware) are pairwise disjoint.
C5_AcceptIffDisjoint ==
  (Loaded /\ IndividualChecksPass(call.arg))
    => (call.throws = NoError <=> PairwiseDisjoint(Regions(call.arg)))

\* a bit field of a two-byte type, accepted beside a field in its byte span
C5_Witness ==
  /\ Accepted
  /\ IndividualChecksPass(call.arg)
  /\ \E i, j \in 1 .. Len(call.arg.sections) :
       LET a == call.arg.sections[i]
           b == call.arg.sections[j]
       IN  /\ i # j
           /\ a.type = "uint16" /\ a.bitCount > 0
           /\ b.byteOffset \in a.byteOffset .. (a.byteOffset + 1)

\* the file with sections k and k + 1 in the other order
SwapSections(ini, k) ==
  [ini EXCEPT !.sections =
     [i \in 1 .. Len(ini.sections) |->
        IF i = k THEN ini.sections[k + 1]
        ELSE IF i = k + 1 THEN ini.sections[k]
        ELSE ini.sections[i]]]

FreshMembers == Members(<<>>, 0, 0, "", 0, <<>>)

\* C6: a layout holding two fields whose physical bit ranges intersect is
\* rejected, and whether a layout is accepted does not change when two
\* neighbouring fields are declared in the other order.
C6_OverlapSymmetric ==
  Loaded =>
    /\ (\E i, j \in 1 .. Len(call.arg.sections) :
          /\ i # j
          /\ FieldRegion(call.arg.sections[i])
               \cap FieldRegion(call.arg.sections[j]) # {})
         => call.throws # NoError
    /\ \A k \in 1 .. (Len(call.arg.sections) - 1) :
         (loadConfig(SwapSections(call.arg, k), FreshMembers).throws = NoError)
           <=> (call.throws = NoError)

\* two fields that pass every check of their own, share a bit, and are
\* rejected with the collision error
C6_Witness ==
  /\ Loaded
  /\ IndividualChecksPass(call.arg)
  /\ IniStartCodeLength(call.arg) = 0 /\ IniCrcLength(call.arg) = 0
  /\ Len(call.arg.sections) = 2
  /\ FieldRegion(call.arg.sections[1]) \cap FieldRegion(call.arg.sections[2]) # {}
  /\ call.arg.sections[1].type # call.arg.sections[2].type
  /\ call.throws = "collision: overlaps with another field"

(***************************************************************************)
(* SpecChecks: one loadConfig on a fresh object, over headers of every     *)
(* total length up to RecordLength with start-code and CRC settings that   *)
(* fit and that do not, each with no field or one field of any offset up   *)
(* to the end of the record, and over pairs of fields under a plain header.*)
(***************************************************************************)
\* StartCode literal, StartCodeLength; <<>>, 0 for a header without the keys
ChecksStartCodes ==
  {<<<<>>, 0>>, <<<<2>>, 1>>, <<<<2>>, 2>>, <<<<2>>, RecordLength + 1>>,
   <<<<2, 3>>, 1>>}

\* CRCAlgo, CRCLength; "", 0 for a header without the keys
ChecksCrcs ==
  {<<"", 0>>, <<"CRC16", 2>>, <<"CRC16", 1>>, <<"CRC16", RecordLength + 1>>,
   <<"CRC32", 4>>, <<"CRC32", 2>>, <<"CRC8", 1>>}

\* bitOffset, bitCount
ChecksBitRanges == {<<0, 0>>, <<0, 4>>, <<5, 4>>, <<12, 8>>}

ChecksFields ==
  {Field("f", o, r[1], r[2], t, TRUE, 1, 0) :
     o \in 0 .. RecordLength, r \in ChecksBitRanges,
     t \in {"uint8", "uint16", "uint32", "uint128"}}

ChecksInis ==
  {Ini(sc[2] > 0, sc[1], sc[2], TRUE, total, crc[2] > 0, crc[1], crc[2],
       Named(q)) :
     sc \in ChecksStartCodes, total \in 0 .. RecordLength, crc \in ChecksCrcs,
     q \in SeqsUpTo(ChecksFields, 1)}
  \cup {Ini(FALSE, <<>>, 0, TRUE, RecordLength, FALSE, "", 0, Named(<<a, b>>)) :
          a \in ChecksFields, b \in ChecksFields}

NextChecks ==
  /\ call.op = "none"
  /\ \E ini \in ChecksInis : LoadConfig(ini)

SpecChecks == Init /\ [][NextChecks]_vars

\* the header of a layout is sound: the start-code literal fits its reserved
\* length, each reserved length fits the record, and the two reserved
\* regions share no byte
HeaderPasses(ini) ==
  /\ ini.hasTotal
  /\ ini.hasSC /\ ini.hasSCL => Len(ini.StartCode) <= ini.StartCodeLength
  /\ IniStartCodeLength(ini) <= ini.TotalLength
  /\ IniCrcLength(ini) <= ini.TotalLength
  /\ (IniStartCodeLength(ini) > 0 /\ IniCrcLength(ini) > 0)
       => IniStartCodeLength(ini) + IniCrcLength(ini) <= ini.TotalLength

\* section k fails a check of its own or shares a bit with a framing region
\* or with an earlier section
SectionFails(ini, k) ==
  LET f == ini.sections[k]
  IN  \/ ~FieldInBounds(f, ini.TotalLength)
      \/ \E j \in 1 .. (k + 1) : FieldRegion(f) \cap Regions(ini)[j] # {}

\* the first section that fails, 0 when none does
FirstFailing(ini) ==
  LET failing == {k \in 1 .. Len(ini.sections) : SectionFails(ini, k)}
  IN  IF failing = {} THEN 0
      ELSE CHOOSE k \in failing : \A j \in failing : k <= j

OutOfBounds(f, total) == f.byteOffset + getTypeSize(f.type) > total

\* the bits section k shares with the start code, with the CRC, and with the
\* sections before it
SharedWithStartCode(ini, k) ==
  FieldRegion(ini.sections[k]) \cap Regions(ini)[1]
SharedWithCrc(ini, k) ==
  FieldRegion(ini.sections[k]) \cap Regions(ini)[2]
SharedWithEarlier(ini, k) ==
  FieldRegion(ini.sections[k])
    \cap UNION {FieldRegion(ini.sections[j]) : j \in 1 .. (k - 1)}

\* a layout whose sections pass their own checks and one of which collides
CollisionCase ==
  /\ Loaded
  /\ HeaderPasses(call.arg)
  /\ IndividualChecksPass(call.arg)
  /\ FirstFailing(call.arg) # 0

\* the lowest byte of the record in which a set of bits lies
LowestByte(region) ==
  CHOOSE i \in {p[1] : p \in region} : \A p \in region : i <= p[1]

\* C22 as stated: the collision error names the start code when the field
\* shares a bit with the start-code region, else the CRC when it shares a
\* bit with the CRC region, else another field; so a field sharing a bit
\* with a CRC byte is never reported as a field/field overlap.
C22_ReasonByRegionPriority ==
  CollisionCase =>
    LET k == FirstFailing(call.arg)
    IN  call.throws =
          IF SharedWithStartCode(call.arg, k) # {}
            THEN "collision: overlaps with StartCode header region"
          ELSE IF SharedWithCrc(call.arg, k) # {}
            THEN "collision: overlaps with CRC tail region"
          ELSE "collision: overlaps with another field"

\* C22 amended: the collision error is named after the lowest byte of the
\* record in which the field shares a bit with what is already claimed:
\* the start code when that byte lies in [0, startCodeLength), else the CRC
\* when it lies in the trailing crcLength bytes, else another field.  A
\* field that shares bits only with an earlier field is never reported as a
\* start-code or CRC overlap, and a field that shares a bit with the start
\* code is always reported as a start-code overlap.
C22_ReasonByLowestSharedByte ==
  CollisionCase =>
    LET ini == call.arg
        k == FirstFailing(ini)
        shared == SharedWithStartCode(ini, k) \cup SharedWithCrc(ini, k)
                    \cup SharedWithEarlier(ini, k)
        b == LowestByte(shared)
    IN  /\ call.throws =
             IF b < IniStartCodeLength(ini)
               THEN "collision: overlaps with StartCode header region"
             ELSE IF IniCrcLength(ini) > 0 /\ b >= ini.TotalLength - IniCrcLength(ini)
               THEN "collision: overlaps with CRC tail region"
             ELSE "collision: overlaps with another field"
        /\ (SharedWithStartCode(ini, k) = {} /\ SharedWithCrc(ini, k) = {})
             => call.throws = "collision: overlaps with another field"
        /\ SharedWithStartCode(ini, k) # {}
             => call.throws = "collision: overlaps with StartCode header region"

\* a field that shares its first byte with an earlier field and its second
\* byte with the CRC, rejected as a field/field overlap
C22_Witness ==
  /\ CollisionCase
  /\ SharedWithCrc(call.arg, FirstFailing(call.arg)) # {}
  /\ SharedWithEarlier(call.arg, FirstFailing(call.arg)) # {}
  /\ call.throws = "collision: overlaps with another field"

BitRangeExceeds(f) ==
  f.bitCount > 0 /\ f.bitOffset + f.bitCount > 8 * getTypeSize(f.type)

\* C14: validation rejects with the bit-width error the first failing field
\* exactly when that field, of a supported type and within the record, has
\* bitCount > 0 and bitOffset + bitCount > 8 * byteWidth(type); every layout
\* holding a field with such a bit range is rejected, and the bit range of a
\* field with bitCount = 0 or bitOffset + bitCount <= 8 * byteWidth(type)
\* is never the reason.
C14_BitWidthRejected ==
  (Loaded /\ HeaderPasses(call.arg))
    => LET k == FirstFailing(call.arg)
       IN  /\ (call.throws = "Bit logic exceeds type width")
                <=> (/\ k # 0
                     /\ isValidType(call.arg.sections[k].type)
                     /\ ~OutOfBounds(call.arg.sections[k], call.arg.TotalLength)
                     /\ BitRangeExceeds(call.arg.sections[k]))
           /\ (\E j \in 1 .. Len(call.arg.sections) :
                 /\ isValidType(call.arg.sections[j].type)
                 /\ BitRangeExceeds(call.arg.sections[j]))
                => call.throws # NoError

\* bitOffset 5, bitCount 4 on a one-byte type within the record
C14_Witness ==
  /\ Loaded
  /\ HeaderPasses(call.arg)
  /\ Len(call.arg.sections) = 1
  /\ call.arg.sections[1].type = "uint8"
  /\ call.arg.sections[1].bitOffset = 5 /\ call.arg.sections[1].bitCount = 4
  /\ ~OutOfBounds(call.arg.sections[1], call.arg.TotalLength)
  /\ call.throws = "Bit logic exceeds type width"

\* C16: a layout whose total length is zero is rejected by validation with
\* the invalid-total-length error, whether or not it has fields, a start
\* code or a CRC.
C16_ZeroTotalLengthRejected ==
  (Loaded /\ call.arg.hasTotal /\ call.arg.TotalLength = 0)
    => call.throws = "Invalid TotalLength"

\* C17: a layout whose CRC algorithm tag is non-empty and not "CRC16", or
\* is "CRC16" with a reserved length other than 2, is rejected by
\* validation, so an accepted layout with a CRC has it in the last two
\* bytes of the record.
C17_CrcSpecRejected ==
  (Loaded /\ call.arg.hasCRC /\ call.arg.hasCRCL
     /\ \/ call.arg.CRCAlgo \notin {"", "CRC16"}
        \/ call.arg.CRCAlgo = "CRC16" /\ call.arg.CRCLength # 2)
    => call.throws # NoError

FramingErrors ==
  {"StartCodeLength exceeds TotalLength", "CRCLength exceeds TotalLength",
   "CRCLength overlaps with StartCodeLength"}

\* C18: validation rejects every layout whose start-code reserved length or
\* CRC reserved length exceeds the total length, and every layout with both
\* whose lengths add up to more than the total length; it does so with a
\* framing error whatever the fields are, and gives a framing error to no
\* other layout.
C18_FramingRejected ==
  (Loaded /\ call.arg.hasTotal
     /\ Len(call.arg.StartCode) <= IniStartCodeLength(call.arg))
    => LET scl == IniStartCodeLength(call.arg)
           crcl == IniCrcLength(call.arg)
           total == call.arg.TotalLength
       IN  (call.throws \in FramingErrors)
             <=> \/ scl > total
                 \/ crcl > total
                 \/ scl > 0 /\ crcl > 0 /\ scl + crcl > total

\* a start code and a CRC that each fit the record and share a byte,
\* rejected as overlapping before a field of an unsupported type is looked at
C18_Witness ==
  /\ Loaded
  /\ IniStartCodeLength(call.arg) = 2 /\ IniCrcLength(call.arg) = 2
  /\ call.arg.TotalLength = 3
  /\ Len(call.arg.sections) = 1
  /\ call.arg.sections[1].type = "uint128"
  /\ call.throws = "CRCLength overlaps with StartCodeLength"

(***************************************************************************)
(* SpecDecode: a layout of one field at offset 0, loaded on a fresh        *)
(* object, then one buffer parsed.  Every type, both byte orders, whole    *)
(* types and bit ranges up to the top bit, identity and non-identity       *)
(* scale and bias; bytes with the top bit set and clear.                   *)
(***************************************************************************)
IntTypes == {"uint8", "int8", "uint16", "int16", "uint32", "int32"}

\* bitOffset, bitCount by the size of the type
DecodeBitRanges(size) ==
  IF size = 1 THEN {<<0, 0>>, <<0, 4>>, <<4, 4>>}
  ELSE IF size = 2 THEN {<<0, 0>>, <<4, 8>>, <<8, 8>>}
  ELSE {<<0, 0>>, <<12, 8>>, <<24, 8>>}

\* scale, bias
DecodeTransforms == {<<1, 0>>, <<2, 0>>, <<1, 1>>}

DecodeFields ==
  {Field("f1", 0, r[1], r[2], t, e, c[1], c[2]) :
     t \in ValidTypes, e \in BOOLEAN, c \in DecodeTransforms,
     r \in DecodeBitRanges(1) \cup DecodeBitRanges(2) \cup DecodeBitRanges(4)}

DecodeInis ==
  {Ini(FALSE, <<>>, 0, TRUE, RecordLength, FALSE, "", 0, <<f>>) :
     f \in {g \in DecodeFields :
              <<g.bitOffset, g.bitCount>> \in DecodeBitRanges(getTypeSize(g.type))}}

\* 0x12, 0x80, 0xFB
DecodeBytes == {18, 128, 251}

RECURSIVE SeqsOfLen(_, _)
SeqsOfLen(S, n) ==
  IF n = 0 THEN {<<>>}
  ELSE {Append(q, x) : q \in SeqsOfLen(S, n - 1), x \in S}

DecodeBuffers == SeqsOfLen(DecodeBytes, RecordLength)

DecodeLoad ==
  /\ call.op = "none"
  /\ \E ini \in DecodeInis : LoadConfig(ini)

DecodeParse ==
  /\ Accepted
  /\ \E data \in DecodeBuffers : Parse(data)

NextDecode == DecodeLoad \/ DecodeParse

SpecDecode == Init /\ [][NextDecode]_vars

(***************************************************************************)
(* What a field is to decode to, from the bytes of the buffer alone.       *)
(***************************************************************************)
\* the underlying value of the field as an unsigned word: bit l is bit l % 8
\* of the byte that holds it under the declared byte order
UnderlyingWord(f, data) ==
  {l \in 0 .. (8 * getTypeSize(f.type) - 1) :
     PhysicalBit(f, l)[2] \in Bits(data[PhysicalBit(f, l)[1] + 1])}

\* the 64-bit two's-complement word of the n-byte signed value W
TwosComplement64(W, n) ==
  {l \in WordBits : IF l < 8 * n THEN l \in W ELSE (8 * n - 1) \in W}

\* the integer a signed 64-bit word holds (for words of small magnitude)
SignedVal(W) == IF 63 \in W THEN -(1 + Val(WordBits \ W)) ELSE Val(W)

Parsed == call.op = "parse"
Returned == Parsed /\ call.throws = NoError

HasEntry(name) == \E e \in call.result : e.name = name
Entry(name) == (CHOOSE e \in call.result : e.name = name).val

\* the bit range of the underlying word, shifted down
ExtractedBits(f, data) ==
  {l - f.bitOffset :
     l \in {k \in UnderlyingWord(f, data) :
              k >= f.bitOffset /\ k < f.bitOffset + f.bitCount}}

\* raw of raw * scale + bias: the extracted bits for a bit field, else the
\* value with the signedness of its type
ExpectedDouble(f, data) ==
  IF f.type = "float"
    THEN MkDouble("float", UnderlyingWord(f, data), f.scale, f.bias)
  ELSE IF f.bitCount > 0
    THEN MkDouble("uint64", ExtractedBits(f, data), f.scale, f.bias)
  ELSE IF f.type \in SignedTypes
    THEN MkDouble("int64",
                  TwosComplement64(UnderlyingWord(f, data), getTypeSize(f.type)),
                  f.scale, f.bias)
  ELSE MkDouble("uint64", UnderlyingWord(f, data), f.scale, f.bias)

Decodable(f) == Parsed /\ f.byteOffset + getTypeSize(f.type) <= Len(call.arg)

\* C8: an integer field of any of the six types with scale # 1 or bias # 0,
\* and a float field with any scale and bias, decodes to the double
\* raw * scale + bias; parse does not fail and yields no integer variant.
C8_TransformGivesDouble ==
  \A k \in 1 .. Len(fields_) :
    LET f == fields_[k]
    IN  (/\ Decodable(f)
         /\ \/ f.type = "float"
            \/ f.type \in IntTypes /\ (f.scale # 1 \/ f.bias # 0))
          => /\ call.throws = NoError
             /\ HasEntry(f.name)
             /\ Entry(f.name) = ExpectedDouble(f, call.arg)

\* C9: a whole-type integer field with identity scale and bias decodes to
\* the unsigned-64 variant holding the zero-extended value (uint8, uint16,
\* uint32) or the signed-64 variant holding the sign-extended value (int8,
\* int16, int32).
C9_WholeIntegerKeepsSignedness ==
  \A k \in 1 .. Len(fields_) :
    LET f == fields_[k]
    IN  (/\ Decodable(f)
         /\ f.type \in IntTypes /\ f.bitCount = 0
         /\ f.scale = 1 /\ f.bias = 0)
          => /\ call.throws = NoError
             /\ HasEntry(f.name)
             /\ Entry(f.name) =
                  IF f.type \in SignedTypes
                    THEN MkI64(TwosComplement64(UnderlyingWord(f, call.arg),
                                                getTypeSize(f.type)))
                    ELSE MkU64(UnderlyingWord(f, call.arg))

\* an int8 over the byte 0xFB decoded to the signed -5
C9_Witness ==
  /\ Returned
  /\ Len(fields_) = 1
  /\ fields_[1].type = "int8" /\ fields_[1].bitCount = 0
  /\ fields_[1].scale = 1 /\ fields_[1].bias = 0
  /\ call.arg[1] = 251
  /\ HasEntry("f1")
  /\ Entry("f1").kind = "int64"
  /\ SignedVal(Entry("f1").bits) = -5

\* C10: an integer field with bitCount > 0 and identity scale and bias, of
\* any of the six types, decodes to the unsigned-64 variant holding
\* ((raw as unsigned of the type's width) >> bitOffset) mod 2^bitCount;
\* parse does not fail.
C10_BitFieldUnsigned ==
  \A k \in 1 .. Len(fields_) :
    LET f == fields_[k]
    IN  (/\ Decodable(f)
         /\ f.type \in IntTypes /\ f.bitCount > 0
         /\ f.scale = 1 /\ f.bias = 0)
          => /\ call.throws = NoError
             /\ HasEntry(f.name)
             /\ Entry(f.name) = MkU64(ExtractedBits(f, call.arg))

\* two buffers hold the same bit at every physical bit of the region
AgreeOn(region, a, b) ==
  \A p \in region : (p[2] \in Bits(a[p[1] + 1])) <=> (p[2] \in Bits(b[p[1] + 1]))

\* what a parse gave for the field of a name: the exception, or the entry
OutcomeFor(name, throws, result) ==
  [throws |-> throws, entry |-> {e \in result : e.name = name}]

\* C21: the value decoded for a field depends only on the buffer bits that
\* validation attributes to the field: a buffer of the same length that
\* agrees with the parsed one on every physical bit the field claims gives
\* the same value for the field.
C21_DependsOnClaimedBits ==
  Parsed =>
    \A k \in 1 .. Len(fields_) : \A other \in DecodeBuffers :
      LET f == fields_[k]
          r == parse(Current, other, systemBigEndian)
      IN  (/\ Len(call.arg) >= totalLength_
           /\ Len(other) = Len(call.arg)
           /\ AgreeOn(FieldRegion(f), call.arg, other))
            => OutcomeFor(f.name, r.throws, r.result)
                 = OutcomeFor(f.name, call.throws, call.result)

(***************************************************************************)
(* SpecEndian: a layout of one whole 16-bit unsigned field at any offset   *)
(* of the record, in either byte order, loaded on a fresh object on a host *)
(* of either byte order, then one buffer parsed.                           *)
(***************************************************************************)
\* scale, bias
EndianTransforms == {<<1, 0>>, <<2, 0>>}

EndianInis ==
  {Ini(FALSE, <<>>, 0, TRUE, RecordLength, FALSE, "", 0,
       <<Field("f1", o, 0, 0, "uint16", e, c[1], c[2])>>) :
     o \in 0 .. (RecordLength - 2), e \in BOOLEAN, c \in EndianTransforms}

\* 0x12, 0x34, 0xFF
EndianBytes == {18, 52, 255}

EndianBuffers == SeqsOfLen(EndianBytes, RecordLength)

EndianLoad ==
  /\ call.op = "none"
  /\ \E ini \in EndianInis : LoadConfig(ini)

EndianParse ==
  /\ Accepted
  /\ \E data \in EndianBuffers : Parse(data)

NextEndian == EndianLoad \/ EndianParse

SpecEndian == Init /\ [][NextEndian]_vars

\* buffer[o] * 256 + buffer[o + 1] when declared big-endian,
\* buffer[o + 1] * 256 + buffer[o] when declared little-endian
Declared16(f, data) ==
  IF f.isBigEndian
    THEN data[f.byteOffset + 1] * 256 + data[f.byteOffset + 2]
    ELSE data[f.byteOffset + 2] * 256 + data[f.byteOffset + 1]

\* C11: a whole 16-bit unsigned field at byte offset o decodes from
\* buffer[o] * 256 + buffer[o + 1] when declared big-endian and from
\* buffer[o + 1] * 256 + buffer[o] when declared little-endian, whatever the
\* byte order of the host: as the unsigned-64 variant under the identity
\* transform, as that value scaled and biased otherwise.
C11_Endian16 ==
  \A k \in 1 .. Len(fields_) :
    LET f == fields_[k]
    IN  (Decodable(f) /\ f.type = "uint16" /\ f.bitCount = 0)
          => /\ call.throws = NoError
             /\ HasEntry(f.name)
             /\ Entry(f.name) =
                  IF f.scale = 1 /\ f.bias = 0
                    THEN MkU64(Bits(Declared16(f, call.arg)))
                    ELSE MkDouble("uint64", Bits(Declared16(f, call.arg)),
                                  f.scale, f.bias)

\* on a little-endian host, bytes 0x12, 0x34 at offset 1 decoded to 4660 by
\* a field declared big-endian
C11_Witness ==
  /\ Returned
  /\ ~systemBigEndian
  /\ Len(fields_) = 1
  /\ fields_[1].byteOffset = 1 /\ fields_[1].isBigEndian
  /\ fields_[1].scale = 1 /\ fields_[1].bias = 0
  /\ call.arg[2] = 18 /\ call.arg[3] = 52
  /\ HasEntry("f1")
  /\ Entry("f1").kind = "uint64"
  /\ Val(Entry("f1").bits) = 4660

(***************************************************************************)
(* SpecFrame: a framed layout loaded on a fresh object, then buffers       *)
(* parsed one after the other: records with the right CRC, the same with   *)
(* one byte changed, cut short, or with a byte too many.                   *)
(***************************************************************************)
FrameStartCode == <<2, 3>>

\* CRC16 over a two-byte field; a two-byte start code before two fields;
\* a one-byte start code, a field and the CRC16
FrameInis ==
  {Ini(FALSE, <<>>, 0, TRUE, RecordLength, TRUE, "CRC16", 2,
       <<Field("f1", 0, 0, 0, "uint16", TRUE, 1, 0)>>),
   Ini(TRUE, FrameStartCode, 2, TRUE, RecordLength, FALSE, "", 0,
       <<Field("f1", 2, 0, 0, "uint8", TRUE, 1, 0),
         Field("f2", RecordLength - 1, 0, 0, "uint8", TRUE, 1, 0)>>),
   Ini(TRUE, SubSeq(FrameStartCode, 1, 1), 1, TRUE, RecordLength, TRUE,
       "CRC16", 2,
       <<Field("f1", 1, 0, 0, "uint8", TRUE, 1, 0)>>)}

FrameBytes == {1, 2, 3}
CorruptBytes == {0, 255}

\* the two bytes of a CRC value, low byte first
CrcBytes(crc) == <<crc % 256, crc \div 256>>

\* the records: a payload and its CRC-16/MODBUS
FrameRecords ==
  {p \o CrcBytes(calculateCRC16Modbus(p, Len(p))) :
     p \in SeqsOfLen(FrameBytes, RecordLength - 2)}

FrameBuffers ==
  FrameRecords
  \cup {[r EXCEPT ![i] = v] :
          r \in FrameRecords, i \in 1 .. RecordLength, v \in CorruptBytes}
  \cup {SubSeq(r, 1, n) : r \in FrameRecords, n \in 0 .. (RecordLength - 1)}
  \cup {Append(r, 0) : r \in FrameRecords}

FrameLoad ==
  /\ call.op = "none"
  /\ \E ini \in FrameInis : LoadConfig(ini)

FrameParse ==
  /\ call.op # "none"
  /\ \E data \in FrameBuffers : Parse(data)

NextFrame == FrameLoad \/ FrameParse

SpecFrame == Init /\ [][NextFrame]_vars

(***************************************************************************)
(* What the decode steps before the fields are to do.                      *)
(***************************************************************************)
BufferSizeError == "Buffer size smaller than expected"
CrcError == "CRC Check Failed"
StartCodeErrorAt == <<"Invalid Start Code at index 0",
                      "Invalid Start Code at index 1">>

LongEnough(data) == Len(data) >= totalLength_

\* the first index at which the buffer differs from the start-code literal,
\* or the length of the literal when it does not
FirstMismatch(data) ==
  LET bad == {i \in 0 .. (Len(startCode_) - 1) : data[i + 1] # startCode_[i + 1]}
  IN  IF bad = {} THEN Len(startCode_)
      ELSE CHOOSE i \in bad : \A j \in bad : i <= j

StartCodeMatches(data) == FirstMismatch(data) = Len(startCode_)

\* the 16-bit value stored little-endian in the last two bytes of the record
StoredCrc(data) == data[totalLength_ - 1] + 256 * data[totalLength_]

CrcMatches(data) ==
  calculateCRC16Modbus(data, totalLength_ - 2) = StoredCrc(data)

\* C1: a buffer smaller than totalLength makes parse fail with the
\* buffer-size error and return no mapping.
C1_ShortBufferFails ==
  (Parsed /\ Len(call.arg) < totalLength_)
    => (call.throws = BufferSizeError /\ call.result = {})

\* C2: under a CRC16 layout, for a buffer of at least totalLength bytes that
\* passes the start-code check, parse succeeds if and only if the
\* CRC-16/MODBUS over [0, totalLength-2) equals the value stored
\* little-endian in the last two bytes; otherwise it fails with the CRC
\* mismatch error.
C2_CrcDecides ==
  (Parsed /\ crcAlgo_ = "CRC16" /\ LongEnough(call.arg)
     /\ StartCodeMatches(call.arg))
    => /\ call.throws = NoError <=> CrcMatches(call.arg)
       /\ ~CrcMatches(call.arg) => call.throws = CrcError

\* the buffers differ in exactly one byte of the record
OneByteChanged(a, b) ==
  /\ Len(a) = Len(b)
  /\ Cardinality({i \in 1 .. Len(a) : a[i] # b[i]}) = 1
  /\ \E i \in 1 .. totalLength_ : a[i] # b[i]

\* C3: after a record has decoded under a CRC16 layout, the same record with
\* one byte changed (a data byte or a CRC byte) fails with the
\* integrity-mismatch error.
C3_OneByteChangeFails ==
  [][(/\ Returned /\ crcAlgo_ = "CRC16" /\ LongEnough(call.arg)
      /\ StartCodeMatches(call.arg) /\ CrcMatches(call.arg)
      /\ call'.op = "parse"
      /\ OneByteChanged(call.arg, call'.arg))
       => call'.throws = CrcError]_vars

\* C4: with a start-code literal of length k > 0, parse passes the
\* start-code check if and only if the first k bytes of the buffer equal the
\* literal; otherwise it fails with the start-code error naming the index of
\* the first mismatching byte.
C4_StartCodeDecides ==
  (Parsed /\ Len(startCode_) > 0 /\ LongEnough(call.arg))
    => IF StartCodeMatches(call.arg)
         THEN \A i \in 1 .. Len(StartCodeErrorAt) :
                call.throws # StartCodeErrorAt[i]
         ELSE call.throws = StartCodeErrorAt[FirstMismatch(call.arg) + 1]

\* C12: a mapping that parse returns has exactly one entry per declared
\* field: its keys are the declared field names and its size is the number
\* of fields.
C12_OneEntryPerField ==
  Returned =>
    /\ {e.name : e \in call.result} = {fields_[k].name : k \in 1 .. Len(fields_)}
    /\ Cardinality(call.result) = Len(fields_)

(***************************************************************************)
(* SpecRepeat: a layout loaded on a fresh object, then records and their   *)
(* prefixes parsed one after the other, in any order.  One layout has      *)
(* a field on which parse throws, so that calls that return and calls that *)
(* throw alternate.  earlier remembers one parse call, chosen freely, and  *)
(* the outcomes of the calls on other buffers made since.                  *)
(***************************************************************************)
RepeatInis ==
  {Ini(FALSE, <<>>, 0, TRUE, RecordLength, FALSE, "", 0,
       <<Field("f1", 0, 0, 0, "uint8", TRUE, 1, 0),
         Field("f2", 1, 0, 0, "int8", TRUE, 2, 0)>>),
   Ini(FALSE, <<>>, 0, TRUE, RecordLength, FALSE, "", 0,
       <<Field("f1", 0, 0, 0, "uint16", TRUE, 1, 0),
         Field("f2", 2, 0, 0, "int16", FALSE, 1, 1)>>)}

\* two records of alternating bytes 0x01 and 0xFB
RepeatRecords ==
  {[i \in 1 .. RecordLength |-> IF i % 2 = b THEN 1 ELSE 251] : b \in {0, 1}}

\* the records and every prefix of them
RepeatBuffers ==
  {SubSeq(r, 1, n) : r \in RepeatRecords, n \in 0 .. RecordLength}

Outcome(c) == IF c.throws = NoError THEN "returned" ELSE "threw"

RepeatLoad ==
  /\ call.op = "none"
  /\ \E ini \in RepeatInis : LoadConfig(ini)

RepeatParse ==
  /\ Accepted \/ Parsed
  /\ \E data \in RepeatBuffers :
       /\ ParseCall(data)
       /\ IF earlier = Unobserved
            THEN earlier' \in
                   {Unobserved,
                    [layout |-> Current, arg |-> data, throws |-> call'.throws,
                     result |-> call'.result, between |-> {}]}
          ELSE IF data = earlier.arg THEN earlier' = earlier
          ELSE earlier' =
                 [earlier EXCEPT !.between = @ \cup {Outcome(call')}]

NextRepeat == RepeatLoad \/ RepeatParse

SpecRepeat == Init /\ [][NextRepeat]_vars

MkString(str) == MkValue("string", "string", str, 1, 0)

\* the 64-bit two's-complement word of a small integer
WordOf(n) == IF n >= 0 THEN Bits(n) ELSE WordBits \ Bits(-n - 1)

\* the number a stored double holds, for a term over a small integer
DoubleVal(v) ==
  (IF v.src = "int64" THEN SignedVal(v.bits) ELSE Val(v.bits)) * v.scale
    + v.bias

\* static_cast<T>(arg), arg the alternative that v holds (not a string): the
\* set of values the conversion can give.  A negative double has no
\* unsigned value: the conversion is undefined, and gives the wrapped word
\* or zero by the machine.
staticCast(T, v) ==
  IF T = "bool"
    THEN {MkBool(IF v.kind = "double" THEN DoubleVal(v) # 0 ELSE v.bits # {})}
  ELSE IF T = "double"
    THEN {IF v.kind = "double" THEN v
          ELSE IF v.kind = "int64" THEN MkDouble("int64", v.bits, 1, 0)
          ELSE MkDouble("uint64", v.bits, 1, 0)}
  ELSE IF v.kind = "double"
    THEN IF T = "uint64" /\ DoubleVal(v) < 0
           THEN {MkU64(WordOf(DoubleVal(v))), MkU64({})}
           ELSE {MkValue(T, T, WordOf(DoubleVal(v)), 1, 0)}
  ELSE {MkValue(T, T, v.bits, 1, 0)}

\* get<T>() throws for every stored alternative other than T itself
GetStrict(T, v) ==
  IF v.kind # T
    THEN [throws |-> "Cannot convert string value to numeric type",
          results |-> {}]
  ELSE [throws |-> NoError, results |-> staticCast(T, v)]

\* ByteParser.hpp:20-32
get(T, v) ==
  IF v.kind = "string"
    THEN [throws |-> "Cannot convert string value to numeric type",
          results |-> {}]
  ELSE [throws |-> NoError, results |-> staticCast(T, v)]

\* value.get<T>() on a ParsedValue holding v
Get(T, v) ==
  LET r == get(T, v)
  IN  /\ \/ /\ r.throws # NoError
            /\ call' = Called("get", <<T, v>>, r.throws, {})
         \/ /\ r.throws = NoError
            /\ \E x \in r.results : call' = Called("get", <<T, v>>, NoError, {x})
      /\ UNCHANGED <<parser, systemBigEndian, earlier>>

(***************************************************************************)
(* SpecGet: one get<T>() on a ParsedValue holding any of the five          *)
(* alternatives.                                                           *)
(***************************************************************************)
GetTypes == {"uint64", "int64", "double", "bool"}

StoredValues ==
  {MkU64(W) : W \in {{}, Bits(1), Bits(2), Bits(255), {63}}}
  \cup {MkI64(WordOf(n)) : n \in {0, 1, -1, -5, 127}}
  \cup {MkDouble(src, WordOf(n), c[1], c[2]) :
          src \in {"int64"}, n \in {0, 5, -5}, c \in {<<1, 0>>, <<2, 1>>}}
  \cup {MkDouble("uint64", Bits(n), 1, 0) : n \in {0, 3}}
  \cup {MkBool(b) : b \in BOOLEAN}
  \cup {MkString(str) : str \in {"", "12", "true", "abc"}}

NextGet ==
  /\ call.op = "none"
  /\ \E T \in GetTypes, v \in StoredValues : Get(T, v)

SpecGet == Init /\ [][NextGet]_vars

Numeric == {"uint64", "int64", "double"}

\* C20 as stated: get<T> fails whenever T is an alternative other than the
\* one stored, conversions among unsigned 64, signed 64 and double being the
\* only exception: a stored bool is not returned as a number, nor a stored
\* number as bool.
C20_GetFailsOnMismatch ==
  (call.op = "get"
     /\ call.arg[1] # call.arg[2].kind
     /\ ~(call.arg[1] \in Numeric /\ call.arg[2].kind \in Numeric))
    => call.throws # NoError

\* C20, amended: get<T> for T a numeric type or bool fails exactly when the
\* stored alternative is a string; a stored bool or number converts to T as
\* static_cast does (a bool to 0 or 1, a number to true when it is not
\* zero).
C20_GetFailsOnStringOnly ==
  call.op = "get" =>
    LET T == call.arg[1]
        v == call.arg[2]
    IN  /\ (call.throws # NoError) <=> (v.kind = "string")
        /\ (v.kind = "bool" /\ T \in {"uint64", "int64"})
             => call.result = {MkValue(T, T, IF v.bits = {} THEN {} ELSE {0}, 1, 0)}
        /\ (v.kind \in {"uint64", "int64"} /\ T = "bool")
             => call.result = {MkBool(v.bits # {})}

\* a stored true returned as the unsigned number 1
C20_Witness ==
  /\ call.op = "get"
  /\ call.arg[1] = "uint64"
  /\ call.arg[2] = MkBool(TRUE)
  /\ call.throws = NoError
  /\ call.result = {MkU64({0})}

(***************************************************************************)
(* The programmatic builder, ByteParser.hpp:101-137.  Its definitions are  *)
(* not among the sources: each call is modelled from its declaration and   *)
(* from the specification (each setter stores its arguments, addField      *)
(* rejects an unsupported type tag at once and otherwise appends, clear    *)
(* returns the object to its default state, validateConfig is const and    *)
(* throws on the first failing check).                                     *)
(***************************************************************************)
\* the checks loadConfig makes on the members it has stored,
\* ByteParser.cpp:99-101 and 135-266
LayoutError(m) ==
  IF Len(m.startCode) > m.startCodeLength
    THEN "StartCode binary size exceeds StartCodeLength"
  ELSE LoadBody(m.totalLength, m.startCodeLength, m.crcLength, m.fields).err

\* validateConfig(): the checks of the specification's validator that
\* loadConfig does not make, then those it makes
validateConfig(m) ==
  IF m.totalLength = 0 THEN "Invalid TotalLength"
  ELSE IF m.crcAlgo \notin {"", "CRC16"} THEN "Unsupported CRC algorithm"
  ELSE IF m.crcAlgo = "CRC16" /\ m.crcLength # 2
    THEN "CRC16 requires CRCLength 2"
  ELSE LayoutError(m)

SetTotalLength(length) ==
  /\ totalLength_' = length
  /\ call' = Called("setTotalLength", <<length>>, NoError, {})
  /\ UNCHANGED <<startCode_, startCodeLength_, crcAlgo_, crcLength_, fields_,
                 systemBigEndian, earlier>>

SetStartCode(code, length) ==
  /\ startCode_' = code
  /\ startCodeLength_' = length
  /\ call' = Called("setStartCode", <<code, length>>, NoError, {})
  /\ UNCHANGED <<totalLength_, crcAlgo_, crcLength_, fields_, systemBigEndian,
                 earlier>>

SetCRC(algo, length) ==
  /\ crcAlgo_' = algo
  /\ crcLength_' = length
  /\ call' = Called("setCRC", <<algo, length>>, NoError, {})
  /\ UNCHANGED <<startCode_, startCodeLength_, totalLength_, fields_,
                 systemBigEndian, earlier>>

AddField(definition) ==
  /\ Len(fields_) < MaxFields
  /\ IF isValidType(definition.type)
       THEN /\ fields_' = Append(fields_, definition)
            /\ call' = Called("addField", definition, NoError, {})
       ELSE /\ fields_' = fields_
            /\ call' = Called("addField", definition, "Invalid type", {})
  /\ UNCHANGED <<startCode_, startCodeLength_, totalLength_, crcAlgo_,
                 crcLength_, systemBigEndian, earlier>>

Clear ==
  /\ SetMembers(FreshMembers)
  /\ call' = Called("clear", <<>>, NoError, {})
  /\ UNCHANGED <<systemBigEndian, earlier>>

ValidateConfig ==
  /\ call' = Called("validateConfig", <<>>, validateConfig(Current), {})
  /\ UNCHANGED <<parser, systemBigEndian, earlier>>

(***************************************************************************)
(* Spec: the object through any sequence of builder calls, loadConfig and  *)
(* parse.                                                                  *)
(***************************************************************************)
BuilderFields ==
  {Field("a", 0, 0, 0, "uint8", TRUE, 1, 0),
   Field("b", 0, 0, 0, "uint16", FALSE, 1, 0),
   Field("c", RecordLength - 1, 0, 0, "uint8", TRUE, 1, 0),
   Field("d", 0, 0, 0, "uint128", TRUE, 1, 0)}

\* a layout with CRC16, and a file whose [Header] has a start code and no
\* TotalLength
LifecycleInis ==
  {Ini(FALSE, <<>>, 0, TRUE, RecordLength, TRUE, "CRC16", 2,
       <<Field("f1", 0, 0, 0, "uint16", TRUE, 1, 0)>>),
   Ini(TRUE, FrameStartCode, 2, FALSE, 0, FALSE, "", 0, <<>>)}

LifecycleBuffers ==
  {p \o CrcBytes(calculateCRC16Modbus(p, Len(p))) :
     p \in SeqsOfLen({1}, RecordLength - 2)}
  \cup {<<1>>, <<>>}

Next ==
  \/ SetTotalLength(RecordLength)
  \/ SetStartCode(SubSeq(FrameStartCode, 1, 1), 1)
  \/ SetCRC("CRC16", 2)
  \/ \E definition \in BuilderFields : AddField(definition)
  \/ Clear
  \/ ValidateConfig
  \/ \E ini \in LifecycleInis : LoadConfig(ini)
  \/ \E data \in LifecycleBuffers : Parse(data)

Spec == Init /\ [][Next]_vars

\* C7: parse never returns a value mapping for a configuration that fails
\* validation; after any builder calls it validates again and fails with
\* the validation error instead of decoding.
C7_ParseValidatesFirst ==
  Returned => LayoutError(Current) = NoError


\* the eight supported type tags
SupportedTags ==
  {"uint8", "int8", "uint16", "int16", "uint32", "int32", "float", "bool"}

\* C15: addField with a type tag outside the eight supported ones fails at
\* the call with the invalid-type error, and a field with an unsupported
\* type tag is never in the field list.
C15_AddFieldRejectsBadType ==
  /\ (call.op = "addField" /\ call.arg.type \notin SupportedTags)
       => call.throws = "Invalid type"
  /\ \A k \in 1 .. Len(fields_) : fields_[k].type \in SupportedTags

\* addField of a uint128 field failed on a layout that holds a field
C15_Witness ==
  /\ call.op = "addField"
  /\ call.arg.type = "uint128"
  /\ call.throws = "Invalid type"
  /\ Len(fields_) = 1

(***************************************************************************)
(* SpecReserved: layouts that reserve a start-code region and a CRC region *)
(* without a start-code literal and without a CRC algorithm, then parse of *)
(* buffers shorter than, as long as and longer than the record.            *)
(***************************************************************************)
\* StartCodeLength, CRCLength
ReservedLengths == {<<1, 1>>, <<1, 2>>, <<2, 1>>}

ReservedFields ==
  {Field("f", o, 0, 0, t, TRUE, c[1], c[2]) :
     o \in 0 .. (RecordLength - 1), t \in {"uint8", "int8", "uint16"},
     c \in {<<1, 0>>, <<2, 1>>}}

\* "StartCode =" and "CRCAlgo =" with nothing behind the sign
ReservedInis ==
  {Ini(TRUE, <<>>, l[1], TRUE, RecordLength, TRUE, "", l[2], Named(q)) :
     l \in ReservedLengths, q \in SeqsUpTo(ReservedFields, 1)}

\* 0x00, 0xFF
ReservedBytes == {0, 255}

ReservedBuffers ==
  SeqsOfLen(ReservedBytes, RecordLength - 1)
    \cup SeqsOfLen(ReservedBytes, RecordLength)
    \cup SeqsOfLen(ReservedBytes, RecordLength + 1)

ReservedLoad ==
  /\ call.op = "none"
  /\ \E ini \in ReservedInis : LoadConfig(ini)

ReservedParse ==
  /\ Accepted
  /\ \E data \in ReservedBuffers : Parse(data)

NextReserved == ReservedLoad \/ ReservedParse

SpecReserved == Init /\ [][NextReserved]_vars

\* the object holds reserved lengths with no literal and no algorithm
ReservedOnly ==
  /\ startCode_ = <<>> /\ startCodeLength_ > 0
  /\ crcAlgo_ = "" /\ crcLength_ > 0

\* C23: a layout with an empty start-code literal and an empty CRC tag but
\* non-zero reserved lengths validates when its fields keep clear of the two
\* reserved ranges, and is rejected when a field enters one of them; parse
\* compares neither a start code nor a CRC, so every buffer of at least
\* totalLength bytes decodes without an error, with an entry per field.
C23_ReservedWithoutLiteral ==
  /\ (Loaded /\ IndividualChecksPass(call.arg))
       => /\ call.throws = NoError <=> PairwiseDisjoint(Regions(call.arg))
          /\ call.throws = NoError => ReservedOnly
  /\ (Parsed /\ ReservedOnly /\ Len(call.arg) >= totalLength_)
       => /\ call.throws = NoError
          /\ \A k \in 1 .. Len(fields_) : HasEntry(fields_[k].name)

(***************************************************************************)
(* SpecReads: layouts with fields at the first bytes of the record and     *)
(* fields whose ByteOffset lies at the top of the size_t range, then parse *)
(* of buffers of every length up to the record.  The fields at the top of  *)
(* the range are bit fields whose bits lie in bytes 0 and up, so that      *)
(* loadConfig indexes its usage map within the record.                     *)
(***************************************************************************)
\* 2^64 - 1, 2^64 - 2 and 2^64 - 5 as size_t
TopOffsets == {-1, -2, -5}

ReadsFields ==
  {Field("f", 0, 0, 0, "uint16", FALSE, 1, 0),
   Field("f", 2, 0, 0, "uint16", TRUE, 1, 0),
   Field("f", RecordLength - 1, 0, 0, "uint8", TRUE, 1, 0),
   Field("f", RecordLength - 1, 0, 0, "uint16", TRUE, 1, 0),
   Field("f", -1, 8, 8, "uint16", FALSE, 1, 0),
   Field("f", -1, 0, 8, "uint16", TRUE, 1, 0),
   Field("f", -2, 16, 8, "uint32", FALSE, 1, 0),
   Field("f", -1, 12, 8, "uint32", FALSE, 1, 0),
   Field("f", -5, 0, 0, "uint32", FALSE, 1, 0),
   Field("f", -5, 0, 0, "uint8", FALSE, 1, 0)}

ReadsInis ==
  {Ini(FALSE, <<>>, 0, TRUE, RecordLength, FALSE, "", 0, Named(q)) :
     q \in SeqsUpTo(ReadsFields, MaxFields)}

\* 0x12, 0xFF
ReadsBytes == {18, 255}

ReadsBuffers == SeqsUpTo(ReadsBytes, RecordLength)

ReadsLoad ==
  /\ call.op = "none"
  /\ \E ini \in ReadsInis : LoadConfig(ini)

ReadsParse ==
  /\ Accepted
  /\ \E data \in ReadsBuffers : Parse(data)

NextReads == ReadsLoad \/ ReadsParse

SpecReads == Init /\ [][NextReads]_vars

\* C24: whatever the layout and the buffer, parse reads buffer bytes at
\* indices in [0, size) only, a field whose byteOffset + byteWidth wraps
\* around the unsigned word included.
C24_ReadsWithinBuffer ==
  Parsed => call.reads \subseteq 0 .. (Len(call.arg) - 1)

====
